---- MODULE Spec2Model ----
(***************************************************************************)
(* Model of the allocation engine of memory_allocation_engine.py:          *)
(* MemoryManager with its block list (memory_blocks), frame table          *)
(* (page_table), process map (processes), event log (events) and counters. *)
(* Each public mutating call (allocate_process, deallocate_process) is one *)
(* action that runs the whole handler, helpers included.  Timestamps and   *)
(* the free-form details text of events are not modelled.                  *)
(* The callers of gui_initial.py (the simulation thread, the button        *)
(* callbacks and the display loop of the GUI thread) run the same handlers *)
(* statement by statement in the specification SpecThreads.                *)
(***************************************************************************)
EXTENDS Integers, Sequences, FiniteSets, TLC

\* ---- configuration of the modelled engine and bounds of the exploration
total_memory_size == 4
page_size == 2
MaxPid == 2
MaxSize == 3
MaxEvents == 4

VARIABLES memory_blocks, page_table, processes, events,
          page_faults, external_fragmentation, internal_fragmentation,
          last_call

\* the configuration the engine object was constructed with, the GUI's own
\* fields, ProcessGenerator.next_pid, the ids handed out so far, the position
\* and locals of each thread inside a handler, and what the display loop read
VARIABLES manager_config, gui, next_pid, issued, thread, observed

engine_vars == <<memory_blocks, page_table, processes, events,
                 page_faults, external_fragmentation, internal_fragmentation>>

gui_vars == <<manager_config, gui, next_pid, issued, thread, observed>>

\* what a step of a thread inside an engine call leaves alone
gui_vars_but_thread == <<manager_config, gui, next_pid, issued, observed>>

vars == <<memory_blocks, page_table, processes, events,
          page_faults, external_fragmentation, internal_fragmentation,
          last_call, manager_config, gui, next_pid, issued, thread, observed>>

\* ---- data model ---------------------------------------------------------
\* Python's None as owner of a block or frame; process ids are 1..MaxPid
None == 0

PIDs == 1..MaxPid

Sizes == 1..MaxSize

PAGING == "paging"

SEGMENTATION == "segmentation"

AllocationMethod == {PAGING, SEGMENTATION}

total_frames == total_memory_size \div page_size

Frames == 0..(total_frames - 1)

MemoryBlock(start, size, process_id) ==
    [start |-> start, size |-> size, process_id |-> process_id]

BlockEnd(block) == block.start + block.size - 1

is_free(block) == block.process_id = None

Page(page_id, frame_id) == [page_id |-> page_id, frame_id |-> frame_id]

Process(process_id, size) ==
    [process_id |-> process_id, size |-> size, pages |-> <<>>, segments |-> <<>>]

MemoryEvent(event_type, process_id) ==
    [event_type |-> event_type, process_id |-> process_id]

\* ---- list helpers (Python list operations on 1-based sequences) ---------
\* list.insert at 1-based position i
InsertAt(s, i, e) == SubSeq(s, 1, i - 1) \o <<e>> \o SubSeq(s, i, Len(s))

\* list.pop at 1-based position i
RemoveAt(s, i) == SubSeq(s, 1, i - 1) \o SubSeq(s, i + 1, Len(s))

SetMin(S) == CHOOSE x \in S : \A y \in S : x <= y

SetMax(S) == CHOOSE x \in S : \A y \in S : x >= y

RECURSIVE SumSeq(_)
SumSeq(s) == IF s = <<>> THEN 0 ELSE Head(s) + SumSeq(Tail(s))

RECURSIVE Gcd(_, _)
Gcd(a, b) == IF b = 0 THEN a ELSE Gcd(b, a % b)

\* the value num/den as a fraction in lowest terms (0 is <<0, 1>>)
Ratio(num, den) ==
    IF num = 0 THEN <<0, 1>>
    ELSE LET g == Gcd(num, den) IN <<num \div g, den \div g>>

\* ---- dict helpers -------------------------------------------------------
DictSet(d, k, v) == [q \in (DOMAIN d) \cup {k} |-> IF q = k THEN v ELSE d[q]]

DictDel(d, k) == [q \in (DOMAIN d) \ {k} |-> d[q]]

EmptyDict == [q \in {} |-> None]

\* ---- MemoryManager helpers ---------------------------------------------
\* variant: the new event is put in front of the log
log_event_front(evs, event_type, process_id) ==
    <<MemoryEvent(event_type, process_id)>> \o evs

log_event(evs, event_type, process_id) ==
    Append(evs, MemoryEvent(event_type, process_id))

\* free_frames = [i for i, p in enumerate(self.page_table) if p is None]
RECURSIVE FreeFramesFrom(_, _)
FreeFramesFrom(pt, i) ==
    IF i >= total_frames THEN <<>>
    ELSE (IF pt[i] = None THEN <<i>> ELSE <<>>) \o FreeFramesFrom(pt, i + 1)

\* variant: the free frames highest index first
RECURSIVE FreeFramesDownFrom(_, _)
FreeFramesDownFrom(pt, i) ==
    IF i < 0 THEN <<>>
    ELSE (IF pt[i] = None THEN <<i>> ELSE <<>>) \o FreeFramesDownFrom(pt, i - 1)

free_frames_desc(pt) == FreeFramesDownFrom(pt, total_frames - 1)

free_frames(pt) == FreeFramesFrom(pt, 0)

\* variant of the split: the process is given the block up to its end, no
\* free block is created after the frame
split_block_for_page_nopost(blocks, block_idx, frame_start, psize, process_id) ==
    LET block == blocks[block_idx]
        hasPre == block.start < frame_start
        blocks1 == IF hasPre
                   THEN InsertAt(blocks, block_idx,
                                 MemoryBlock(block.start, frame_start - block.start, None))
                   ELSE blocks
        idx1 == IF hasPre THEN block_idx + 1 ELSE block_idx
    IN [blocks1 EXCEPT ![idx1] =
          MemoryBlock(frame_start, BlockEnd(block) - frame_start + 1, process_id)]

split_block_for_page(blocks, block_idx, frame_start, psize, process_id) ==
    LET block == blocks[block_idx]
        hasPre == block.start < frame_start
        blocks1 == IF hasPre
                   THEN InsertAt(blocks, block_idx,
                                 MemoryBlock(block.start, frame_start - block.start, None))
                   ELSE blocks
        idx1 == IF hasPre THEN block_idx + 1 ELSE block_idx
        allocated_block == MemoryBlock(frame_start, psize, process_id)
    IN IF BlockEnd(block) > frame_start + psize - 1
       THEN LET post_start == frame_start + psize
                post_size == BlockEnd(block) - post_start + 1
            IN InsertAt([blocks1 EXCEPT ![idx1] = allocated_block], idx1 + 1,
                        MemoryBlock(post_start, post_size, None))
       ELSE [blocks1 EXCEPT ![idx1] = allocated_block]

\* index of the first free block that contains the whole frame span, 0 if none
\* (the for/break scan of _allocate_paging)
FindBlockForFrame(blocks, frame_start) ==
    LET S == {j \in 1..Len(blocks) :
                /\ is_free(blocks[j])
                /\ blocks[j].start <= frame_start
                /\ BlockEnd(blocks[j]) >= frame_start + page_size - 1}
    IN IF S = {} THEN 0 ELSE SetMin(S)

\* the body of "for i in range(num_pages_needed)" from iteration i on;
\* st = [blocks, page_table, pages]; ff is free_frames as a 1-based sequence
RECURSIVE PagingLoop(_, _, _, _, _)
PagingLoop(i, num_pages_needed, ff, process_id, st) ==
    IF i >= num_pages_needed THEN st
    ELSE LET frame == ff[i + 1]
             frame_start == frame * page_size
             j == FindBlockForFrame(st.blocks, frame_start)
             st1 == [blocks |-> IF j = 0 THEN st.blocks
                                ELSE split_block_for_page(st.blocks, j, frame_start,
                                                          page_size, process_id),
                     page_table |-> [st.page_table EXCEPT ![frame] = process_id],
                     pages |-> Append(st.pages, Page(i, frame))]
         IN PagingLoop(i + 1, num_pages_needed, ff, process_id, st1)

RECURSIVE MergeFrom(_, _)
MergeFrom(blocks, i) ==
    IF i >= Len(blocks) THEN blocks
    ELSE IF is_free(blocks[i]) /\ is_free(blocks[i + 1])
         THEN MergeFrom(RemoveAt([blocks EXCEPT ![i] =
                           MemoryBlock(blocks[i].start,
                                       blocks[i].size + blocks[i + 1].size, None)],
                                 i + 1), i)
         ELSE MergeFrom(blocks, i + 1)

\* variant: the scan moves on after a merge instead of looking at the
\* merged block again
RECURSIVE MergeSkipFrom(_, _)
MergeSkipFrom(blocks, i) ==
    IF i >= Len(blocks) THEN blocks
    ELSE IF is_free(blocks[i]) /\ is_free(blocks[i + 1])
         THEN MergeSkipFrom(RemoveAt([blocks EXCEPT ![i] =
                               MemoryBlock(blocks[i].start,
                                           blocks[i].size + blocks[i + 1].size, None)],
                                     i + 1), i + 1)
         ELSE MergeSkipFrom(blocks, i + 1)

merge_adjacent_free_blocks_skip(blocks) == MergeSkipFrom(blocks, 1)

merge_adjacent_free_blocks(blocks) == MergeFrom(blocks, 1)

\* variant of the ratio: largest_free / total_free, not its complement
calculate_external_fragmentation_share(blocks) ==
    LET free == {j \in 1..Len(blocks) : is_free(blocks[j])}
        total_free == SumSeq([j \in 1..Len(blocks) |->
                                 IF is_free(blocks[j]) THEN blocks[j].size ELSE 0])
        largest_free == IF free = {} THEN 0
                        ELSE SetMax({blocks[j].size : j \in free})
    IN IF total_free > 0 THEN Ratio(largest_free, total_free)
       ELSE <<0, 1>>

\* 1 - largest_free / total_free as a fraction, 0 when nothing is free
calculate_external_fragmentation(blocks) ==
    LET free == {j \in 1..Len(blocks) : is_free(blocks[j])}
        total_free == SumSeq([j \in 1..Len(blocks) |->
                                 IF is_free(blocks[j]) THEN blocks[j].size ELSE 0])
        largest_free == IF free = {} THEN 0
                        ELSE SetMax({blocks[j].size : j \in free})
    IN IF total_free > 0 THEN Ratio(total_free - largest_free, total_free)
       ELSE <<0, 1>>

\* the two threads of gui_initial.py that call the engine
Threads == {"simulation", "gui"}

\* a reference that points to no Process object
NoProcess == [object |-> <<"none", 0>>]

\* the locals of a thread inside a handler: its position (pc), the number of
\* Process objects it has created (calls), the arguments of the engine call,
\* its reference to the Process object, the locals of _allocate_paging and
\* _allocate_segmentation, the value loaded by "next_pid += 1", what the
\* snapshots showed when the call began (pre) and what the display loop read
\* while the call was under way (seen)
Idle == [pc |-> "idle", calls |-> 0, op |-> "none", process_id |-> None,
         size |-> 0, method |-> "none", process |-> NoProcess,
         free_frames |-> <<>>, num_pages_needed |-> 0, i |-> 0,
         suitable_block_idx |-> 0, tmp |-> 0, pre |-> None, seen |-> <<>>]

\* MemoryVisualizerGUI.__init__ and ProcessGenerator.__init__
GuiInit ==
    /\ manager_config = [total_memory_size |-> total_memory_size,
                         page_size |-> page_size,
                         total_frames |-> total_frames]
    /\ gui = [memory_size |-> total_memory_size, page_size |-> page_size]
    /\ next_pid = 1
    /\ issued = <<>>
    /\ thread = [t \in Threads |-> Idle]
    /\ observed = <<>>

Init ==
    /\ GuiInit
    /\ memory_blocks = <<MemoryBlock(0, total_memory_size, None)>>
    /\ page_table = [f \in Frames |-> None]
    /\ processes = EmptyDict
    /\ events = <<>>
    /\ page_faults = 0
    /\ external_fragmentation = <<0, 1>>
    /\ internal_fragmentation = 0
    /\ last_call = [op |-> "none", process_id |-> None, size |-> 0,
                    method |-> "none", result |-> FALSE]

\* ---- deallocation helpers ----------------------------------------------
\* "for page in process.pages: self.page_table[page.frame_id] = None"
RECURSIVE ReleaseFrames(_, _)
ReleaseFrames(pt, pages) ==
    IF pages = <<>> THEN pt
    ELSE ReleaseFrames([pt EXCEPT ![Head(pages).frame_id] = None], Tail(pages))

\* variant: the owner test is dropped, every owned block is released
deallocate_paging_all(blocks, pt, process) ==
    LET freed == [i \in 1..Len(blocks) |->
                     MemoryBlock(blocks[i].start, blocks[i].size, None)]
    IN [blocks |-> merge_adjacent_free_blocks(freed),
        page_table |-> ReleaseFrames(pt, process.pages)]

\* returns [blocks, page_table] after _deallocate_paging
deallocate_paging(blocks, pt, process) ==
    LET freed == [i \in 1..Len(blocks) |->
                     IF blocks[i].process_id = process.process_id
                     THEN MemoryBlock(blocks[i].start, blocks[i].size, None)
                     ELSE blocks[i]]
    IN [blocks |-> merge_adjacent_free_blocks(freed),
        page_table |-> ReleaseFrames(pt, process.pages)]

\* the first block that starts at the segment's start and is owned by the
\* process becomes free (for/break scan), for each segment in turn
RECURSIVE ReleaseSegments(_, _, _)
ReleaseSegments(blocks, segments, process_id) ==
    IF segments = <<>> THEN blocks
    ELSE LET S == {i \in 1..Len(blocks) :
                     /\ blocks[i].start = Head(segments).start
                     /\ blocks[i].process_id = process_id}
             blocks1 == IF S = {} THEN blocks
                        ELSE [blocks EXCEPT ![SetMin(S)] =
                                MemoryBlock(blocks[SetMin(S)].start,
                                            blocks[SetMin(S)].size, None)]
         IN ReleaseSegments(blocks1, Tail(segments), process_id)

\* returns [blocks, page_table] after _deallocate_segmentation
deallocate_segmentation(blocks, pt, process) ==
    [blocks |-> merge_adjacent_free_blocks(
                    ReleaseSegments(blocks, process.segments, process.process_id)),
     page_table |-> pt]

\* ---- the public mutating operations ------------------------------------
\* the call just made and the value it returned
Returned(op, process_id, size, method, result) ==
    last_call' = [op |-> op, process_id |-> process_id, size |-> size,
                  method |-> method, result |-> result]

\* variant of the failure path: the page-fault counter is not incremented
paging_fault_nocount(process, registered) ==
    /\ events' = log_event(events, "PAGE_FAULT", process.process_id)
    /\ processes' = registered
    /\ Returned("allocate", process.process_id, process.size, PAGING, FALSE)
    /\ UNCHANGED <<memory_blocks, page_table, page_faults,
                   external_fragmentation, internal_fragmentation>>

\* variant of the failure path: the frames that are free are handed out
\* before the shortage is noticed
paging_fault_partial(process, registered) ==
    LET ff == free_frames(page_table)
        st == PagingLoop(0, Len(ff), ff, process.process_id,
                         [blocks |-> memory_blocks, page_table |-> page_table,
                          pages |-> process.pages])
    IN /\ events' = log_event(events, "PAGE_FAULT", process.process_id)
       /\ page_faults' = page_faults + 1
       /\ processes' = registered
       /\ memory_blocks' = st.blocks
       /\ page_table' = st.page_table
       /\ Returned("allocate", process.process_id, process.size, PAGING, FALSE)
       /\ UNCHANGED <<external_fragmentation, internal_fragmentation>>

\* _allocate_paging when len(free_frames) < num_pages_needed
paging_fault(process, registered) ==
    /\ events' = log_event(events, "PAGE_FAULT", process.process_id)
    /\ page_faults' = page_faults + 1
    /\ processes' = registered
    /\ Returned("allocate", process.process_id, process.size, PAGING, FALSE)
    /\ UNCHANGED <<memory_blocks, page_table, external_fragmentation,
                   internal_fragmentation>>

\* variant of the assignment: the unused part of the last page is added
\* without the test last_page_size > 0, a whole page for an exact fit
paging_assign_notest(process, registered, num_pages_needed, ff) ==
    LET st == PagingLoop(0, num_pages_needed, ff, process.process_id,
                         [blocks |-> memory_blocks, page_table |-> page_table,
                          pages |-> process.pages])
        last_page_size == process.size % page_size
    IN /\ memory_blocks' = st.blocks
       /\ page_table' = st.page_table
       /\ processes' = [registered EXCEPT ![process.process_id].pages = st.pages]
       /\ internal_fragmentation' =
             internal_fragmentation + (page_size - last_page_size)
       /\ events' = log_event(events, "ALLOCATION", process.process_id)
       /\ Returned("allocate", process.process_id, process.size, PAGING, TRUE)
       /\ UNCHANGED <<page_faults, external_fragmentation>>

\* _allocate_paging when enough frames are free
paging_assign(process, registered, num_pages_needed, ff) ==
    LET st == PagingLoop(0, num_pages_needed, ff, process.process_id,
                         [blocks |-> memory_blocks, page_table |-> page_table,
                          pages |-> process.pages])
        last_page_size == process.size % page_size
    IN /\ memory_blocks' = st.blocks
       /\ page_table' = st.page_table
       /\ processes' = [registered EXCEPT ![process.process_id].pages = st.pages]
       /\ internal_fragmentation' =
             IF last_page_size > 0
             THEN internal_fragmentation + (page_size - last_page_size)
             ELSE internal_fragmentation
       /\ events' = log_event(events, "ALLOCATION", process.process_id)
       /\ Returned("allocate", process.process_id, process.size, PAGING, TRUE)
       /\ UNCHANGED <<page_faults, external_fragmentation>>

\* _allocate_paging; the process was already registered by allocate_process
allocate_paging(process, registered) ==
    LET num_pages_needed == (process.size + page_size - 1) \div page_size
        ff == free_frames(page_table)
    IN IF Len(ff) < num_pages_needed
       THEN paging_fault(process, registered)
       ELSE paging_assign(process, registered, num_pages_needed, ff)

\* index of the first free block with block.size >= size, 0 if none
suitable_block_idx(blocks, size) ==
    LET S == {i \in 1..Len(blocks) : is_free(blocks[i]) /\ blocks[i].size >= size}
    IN IF S = {} THEN 0 ELSE SetMin(S)

\* variant of the split: the remainder block is inserted even when the
\* process takes the whole block
allocate_segmentation_remainder(process, registered) ==
    LET idx == suitable_block_idx(memory_blocks, process.size)
    IN IF idx = 0
       THEN /\ events' = log_event(events, "ERROR", process.process_id)
            /\ external_fragmentation' = calculate_external_fragmentation(memory_blocks)
            /\ processes' = registered
            /\ Returned("allocate", process.process_id, process.size, SEGMENTATION, FALSE)
            /\ UNCHANGED <<memory_blocks, page_table, page_faults,
                           internal_fragmentation>>
       ELSE LET block == memory_blocks[idx]
                segment == MemoryBlock(block.start, process.size, process.process_id)
            IN /\ processes' = [registered EXCEPT ![process.process_id].segments =
                                   Append(process.segments, segment)]
               /\ memory_blocks' =
                     InsertAt([memory_blocks EXCEPT ![idx] = segment], idx + 1,
                              MemoryBlock(block.start + process.size,
                                          block.size - process.size, None))
               /\ events' = log_event(events, "ALLOCATION", process.process_id)
               /\ Returned("allocate", process.process_id, process.size, SEGMENTATION, TRUE)
               /\ UNCHANGED <<page_table, page_faults, external_fragmentation,
                              internal_fragmentation>>

\* _allocate_segmentation; the process was already registered
allocate_segmentation(process, registered) ==
    LET idx == suitable_block_idx(memory_blocks, process.size)
    IN IF idx = 0
       THEN /\ events' = log_event(events, "ERROR", process.process_id)
            /\ external_fragmentation' = calculate_external_fragmentation(memory_blocks)
            /\ processes' = registered
            /\ Returned("allocate", process.process_id, process.size, SEGMENTATION, FALSE)
            /\ UNCHANGED <<memory_blocks, page_table, page_faults,
                           internal_fragmentation>>
       ELSE LET block == memory_blocks[idx]
                segment == MemoryBlock(block.start, process.size, process.process_id)
            IN /\ processes' = [registered EXCEPT ![process.process_id].segments =
                                   Append(process.segments, segment)]
               /\ memory_blocks' =
                     IF block.size > process.size
                     THEN InsertAt([memory_blocks EXCEPT ![idx] = segment], idx + 1,
                                   MemoryBlock(block.start + process.size,
                                               block.size - process.size, None))
                     ELSE [memory_blocks EXCEPT ![idx] = segment]
               /\ events' = log_event(events, "ALLOCATION", process.process_id)
               /\ Returned("allocate", process.process_id, process.size, SEGMENTATION, TRUE)
               /\ UNCHANGED <<page_table, page_faults, external_fragmentation,
                              internal_fragmentation>>

\* variant: no duplicate test, the new record replaces the live one
allocate_process_nocheck(process_id, size, method) ==
    /\ Len(events) < MaxEvents
    /\ LET process == Process(process_id, size)
           registered == DictSet(processes, process_id, process)
       IN IF method = PAGING
          THEN allocate_paging(process, registered)
          ELSE allocate_segmentation(process, registered)

allocate_process(process_id, size, method) ==
    /\ Len(events) < MaxEvents
    /\ IF process_id \in DOMAIN processes
       THEN /\ events' = log_event(events, "ERROR", process_id)
            /\ Returned("allocate", process_id, size, method, FALSE)
            /\ UNCHANGED <<memory_blocks, page_table, processes, page_faults,
                           external_fragmentation, internal_fragmentation>>
       ELSE LET process == Process(process_id, size)
                registered == DictSet(processes, process_id, process)
            IN IF method = PAGING
               THEN allocate_paging(process, registered)
               ELSE allocate_segmentation(process, registered)

deallocate_process(process_id) ==
    /\ Len(events) < MaxEvents
    /\ IF process_id \notin DOMAIN processes
       THEN /\ events' = log_event(events, "ERROR", process_id)
            /\ Returned("deallocate", process_id, 0, "none", FALSE)
            /\ UNCHANGED <<memory_blocks, page_table, processes, page_faults,
                           external_fragmentation, internal_fragmentation>>
       ELSE LET process == processes[process_id]
                st == IF process.pages # <<>>
                      THEN deallocate_paging(memory_blocks, page_table, process)
                      ELSE IF process.segments # <<>>
                           THEN deallocate_segmentation(memory_blocks, page_table, process)
                           ELSE [blocks |-> memory_blocks, page_table |-> page_table]
            IN /\ memory_blocks' = st.blocks
               /\ page_table' = st.page_table
               /\ processes' = DictDel(processes, process_id)
               /\ events' = log_event(events, "DEALLOCATION", process_id)
               /\ Returned("deallocate", process_id, 0, "none", TRUE)
               /\ UNCHANGED <<page_faults, external_fragmentation,
                              internal_fragmentation>>

Allocate == \E p \in PIDs, size \in Sizes, method \in AllocationMethod :
                allocate_process(p, size, method) /\ UNCHANGED gui_vars

Deallocate == \E p \in PIDs : deallocate_process(p) /\ UNCHANGED gui_vars

Next == Allocate \/ Deallocate

Spec == Init /\ [][Next]_vars

\* ---- vocabulary of the properties --------------------------------------
FrameSpan(f) == (f * page_size)..((f + 1) * page_size - 1)

Addresses == 0..(total_memory_size - 1)

\* the blocks of a block list that contain address a
BlocksAt(blocks, a) ==
    {j \in 1..Len(blocks) : blocks[j].start <= a /\ a <= BlockEnd(blocks[j])}

AddrFree(blocks, a) ==
    BlocksAt(blocks, a) # {} /\ \A j \in BlocksAt(blocks, a) : is_free(blocks[j])

AddrOwnedBy(blocks, a, p) ==
    BlocksAt(blocks, a) # {} /\ \A j \in BlocksAt(blocks, a) : blocks[j].process_id = p

FreeFrameSet(pt) == {f \in Frames : pt[f] = None}

LastEvent == events[Len(events)]

\* ---- C1 ----------------------------------------------------------------
\* C1: after every call the block list is ordered by start, each block
\* starts where the previous one ends, the first starts at 0, the last ends
\* at total_memory_size - 1, and no two neighbouring blocks are both free.
C1_BlockListWellFormed ==
    /\ Len(memory_blocks) >= 1
    /\ memory_blocks[1].start = 0
    /\ BlockEnd(memory_blocks[Len(memory_blocks)]) = total_memory_size - 1
    /\ \A i \in 1..(Len(memory_blocks) - 1) :
          /\ memory_blocks[i].start < memory_blocks[i + 1].start
          /\ memory_blocks[i + 1].start = BlockEnd(memory_blocks[i]) + 1
          /\ ~(is_free(memory_blocks[i]) /\ is_free(memory_blocks[i + 1]))

\* two neighbours are allocated, then both are released in the same order:
\* the second release merges a free block on each side
C1_Witness ==
    /\ Len(events) = 4
    /\ events[1].event_type = "ALLOCATION"
    /\ events[2].event_type = "ALLOCATION"
    /\ events[3] = MemoryEvent("DEALLOCATION", events[1].process_id)
    /\ events[4] = MemoryEvent("DEALLOCATION", events[2].process_id)
    /\ memory_blocks = <<MemoryBlock(0, total_memory_size, None)>>

\* ---- C2 ----------------------------------------------------------------
\* C2: every call that returns failure leaves the block list and the frame
\* table exactly as they were just before the call.
C2_FailureKeepsMemory ==
    [][last_call'.result = FALSE =>
          (memory_blocks' = memory_blocks /\ page_table' = page_table)]_vars

\* a paging allocate has just failed while part of memory is allocated
C2_Witness ==
    /\ last_call.op = "allocate"
    /\ last_call.result = FALSE
    /\ LastEvent.event_type = "PAGE_FAULT"
    /\ \E f \in Frames : page_table[f] # None
    /\ \E f \in Frames : page_table[f] = None

\* ---- C3 ----------------------------------------------------------------
\* C3: every call that returns failure leaves the set of live processes
\* identical to before the call (a failed allocate of a non-live id leaves
\* it non-live).
C3_FailureKeepsProcesses ==
    [][last_call'.result = FALSE => processes' = processes]_vars

\* ---- C4 ----------------------------------------------------------------
\* C4: in every reachable state, for every frame f, page_table[f] is None
\* exactly when every address of the frame's span lies in a free block, and
\* page_table[f] = p exactly when every address of the span lies in a block
\* owned by p.
C4_FrameTableAgrees ==
    \A f \in Frames :
       /\ page_table[f] = None <=>
             \A a \in FrameSpan(f) : AddrFree(memory_blocks, a)
       /\ \A p \in PIDs :
             page_table[f] = p <=>
                \A a \in FrameSpan(f) : AddrOwnedBy(memory_blocks, a, p)

\* ---- C5 ----------------------------------------------------------------
\* C5: immediately after a successful paging allocate(p, size), every frame
\* in p's page list has its address span covered by a block owned by p.
C5_PagesCoveredByOwnBlocks ==
    (last_call.op = "allocate" /\ last_call.method = PAGING /\ last_call.result)
    => \A i \in 1..Len(processes[last_call.process_id].pages) :
          LET f == processes[last_call.process_id].pages[i].frame_id
          IN \E j \in 1..Len(memory_blocks) :
                /\ memory_blocks[j].process_id = last_call.process_id
                /\ memory_blocks[j].start <= f * page_size
                /\ BlockEnd(memory_blocks[j]) >= (f + 1) * page_size - 1

\* ---- C6 ----------------------------------------------------------------
\* C6: a successful paging allocate(p, size) gives p exactly
\* k = ceil(size/page_size) pages with ids 0..k-1, page i is on the (i+1)-th
\* lowest-index frame that was free before the call, exactly those k frames
\* change owner to p in the frame table and no other frame changes.
C6_PagingAssignsLowestFrames ==
    [][(last_call'.op = "allocate" /\ last_call'.method = PAGING /\ last_call'.result)
       => LET p == last_call'.process_id
              size == last_call'.size
              k == IF size % page_size = 0 THEN size \div page_size
                   ELSE size \div page_size + 1
              free == FreeFrameSet(page_table)
              pages == processes'[p].pages
              assigned == {pages[i].frame_id : i \in 1..Len(pages)}
          IN /\ Len(pages) = k
             /\ \A i \in 1..Len(pages) :
                   /\ pages[i].page_id = i - 1
                   /\ pages[i].frame_id \in free
                   /\ Cardinality({g \in free : g < pages[i].frame_id}) = i - 1
             /\ Cardinality(assigned) = k
             /\ \A f \in Frames :
                   page_table'[f] = IF f \in assigned THEN p ELSE page_table[f]]_vars

\* a request of one unit more than a page has just been given pages 0 and 1
\* on frames 0 and 1
C6_Witness ==
    /\ last_call.op = "allocate"
    /\ last_call.method = PAGING
    /\ last_call.result
    /\ last_call.size = page_size + 1
    /\ processes[last_call.process_id].pages = <<Page(0, 0), Page(1, 1)>>
    /\ page_table[0] = last_call.process_id
    /\ page_table[1] = last_call.process_id

\* ---- C7 ----------------------------------------------------------------
\* a process is live from its successful allocation to its deallocation:
\* it is in the process set and holds pages or a segment
Live(procs, p) ==
    p \in DOMAIN procs /\ (procs[p].pages # <<>> \/ procs[p].segments # <<>>)

\* C7: a paging allocate (of an id that is not live) whose
\* ceil(size/page_size) exceeds the number of free frames returns failure,
\* appends exactly one PAGE_FAULT event, increases page_faults by exactly 1,
\* assigns no frame and splits no block.
C7_InsufficientFramesFails ==
    [][(/\ last_call'.op = "allocate"
        /\ last_call'.method = PAGING
        /\ ~Live(processes, last_call'.process_id)
        /\ last_call'.size > Cardinality(FreeFrameSet(page_table)) * page_size)
       => /\ last_call'.result = FALSE
          /\ events' = Append(events, MemoryEvent("PAGE_FAULT", last_call'.process_id))
          /\ page_faults' = page_faults + 1
          /\ page_table' = page_table
          /\ memory_blocks' = memory_blocks]_vars

\* ---- C8 ----------------------------------------------------------------
\* C8: a successful deallocate(p) turns every block and every frame owned
\* by p free, leaves owner and address span of every block and frame owned
\* by another process unchanged, removes only p from the process set, and
\* afterwards the id p can be allocated again without being rejected as a
\* duplicate.
OwnedBlocks(blocks, owners) ==
    {blocks[j] : j \in {i \in 1..Len(blocks) : blocks[i].process_id \in owners}}

C8_DeallocateFreesOnlyOwn ==
    [][/\ (last_call'.op = "deallocate" /\ last_call'.result)
          => LET p == last_call'.process_id
             IN /\ \A a \in Addresses :
                      AddrOwnedBy(memory_blocks, a, p) => AddrFree(memory_blocks', a)
                /\ OwnedBlocks(memory_blocks', {p}) = {}
                /\ OwnedBlocks(memory_blocks', PIDs \ {p}) =
                      OwnedBlocks(memory_blocks, PIDs \ {p})
                /\ \A f \in Frames :
                      page_table'[f] = IF page_table[f] = p THEN None
                                       ELSE page_table[f]
                /\ DOMAIN processes' = DOMAIN processes \ {p}
                /\ \A q \in DOMAIN processes' : processes'[q] = processes[q]
       /\ (/\ last_call.op = "deallocate" /\ last_call.result
           /\ last_call'.op = "allocate"
           /\ last_call'.process_id = last_call.process_id)
          => /\ last_call'.process_id \notin DOMAIN processes
             /\ last_call'.process_id \in DOMAIN processes'
             /\ processes'[last_call'.process_id].size = last_call'.size]_vars

\* p was allocated and has just been released while another process that
\* holds memory stays live
C8_Witness ==
    /\ last_call.op = "deallocate"
    /\ last_call.result
    /\ \E i \in 1..Len(events) :
          events[i] = MemoryEvent("ALLOCATION", last_call.process_id)
    /\ \E q \in DOMAIN processes :
          /\ processes[q].pages # <<>> \/ processes[q].segments # <<>>
          /\ OwnedBlocks(memory_blocks, {q}) # {}
    /\ \E j \in 1..Len(memory_blocks) : is_free(memory_blocks[j])

\* ---- C9 ----------------------------------------------------------------
\* C9: a segmentation allocate(p, size) (of an id that is not live) succeeds
\* exactly when some free block has length >= size, and on success the
\* segment is placed at the start of the lowest-address free block whose
\* length is >= size, never in a later qualifying block.
QualifyingStarts(blocks, size) ==
    {blocks[j].start : j \in {i \in 1..Len(blocks) :
                                 is_free(blocks[i]) /\ blocks[i].size >= size}}

C9_SegmentationFirstFit ==
    [][(/\ last_call'.op = "allocate"
        /\ last_call'.method = SEGMENTATION
        /\ ~Live(processes, last_call'.process_id))
       => LET p == last_call'.process_id
              size == last_call'.size
              starts == QualifyingStarts(memory_blocks, size)
          IN /\ last_call'.result <=> starts # {}
             /\ last_call'.result =>
                   /\ processes'[p].segments =
                         <<MemoryBlock(SetMin(starts), size, p)>>
                   /\ MemoryBlock(SetMin(starts), size, p)
                         \in OwnedBlocks(memory_blocks', {p})]_vars

\* ---- C10 ---------------------------------------------------------------
\* C10: allocate_process(p, size, method) with p already live returns
\* failure, appends exactly one ERROR event and changes nothing else: block
\* list, frame table, process set (p's pages, segment and size included) and
\* all counters are unchanged.
C10_DuplicateRejected ==
    [][(last_call'.op = "allocate" /\ last_call'.process_id \in DOMAIN processes)
       => /\ last_call'.result = FALSE
          /\ events' = Append(events, MemoryEvent("ERROR", last_call'.process_id))
          /\ UNCHANGED <<memory_blocks, page_table, processes, page_faults,
                         external_fragmentation, internal_fragmentation>>]_vars

\* a second allocate of a process that holds pages was rejected, and the
\* process keeps the size it was allocated with
C10_Witness ==
    /\ last_call.op = "allocate"
    /\ last_call.result = FALSE
    /\ LastEvent = MemoryEvent("ERROR", last_call.process_id)
    /\ last_call.process_id \in DOMAIN processes
    /\ processes[last_call.process_id].pages # <<>>
    /\ processes[last_call.process_id].size # last_call.size

\* ---- C11 ---------------------------------------------------------------
\* C11: deallocate_process(p) returns failure and appends exactly one ERROR
\* event whenever no allocate of p has succeeded since p was last
\* successfully deallocated (p is not live), and returns success with one
\* DEALLOCATION event whenever such an allocate has succeeded (p is live).
C11_DeallocateKnowsLive ==
    [][(last_call'.op = "deallocate")
       => LET p == last_call'.process_id
          IN IF Live(processes, p)
             THEN /\ last_call'.result = TRUE
                  /\ events' = Append(events, MemoryEvent("DEALLOCATION", p))
             ELSE /\ last_call'.result = FALSE
                  /\ events' = Append(events, MemoryEvent("ERROR", p))]_vars

\* ---- C13 ---------------------------------------------------------------
\* C13: in every reachable state each process of the process set holds
\* either a non-empty page list and no segment, or exactly one segment and
\* no pages; none holds both and none holds neither.
C13_PagesXorSegment ==
    \A p \in DOMAIN processes :
       \/ (processes[p].pages # <<>> /\ processes[p].segments = <<>>)
       \/ (processes[p].pages = <<>> /\ Len(processes[p].segments) = 1)

\* ---- C12 ---------------------------------------------------------------
\* requests of size 0 included
SizesZero == 0..MaxSize

AllocateZero == \E p \in PIDs, size \in SizesZero, method \in AllocationMethod :
                    allocate_process(p, size, method) /\ UNCHANGED gui_vars

NextZero == AllocateZero \/ Deallocate

SpecZero == Init /\ [][NextZero]_vars

\* C12: every block of the block list has length >= 1 in every reachable
\* state, for all sequences of calls with sizes >= 0 (a request of size 0 is
\* either rejected or creates no block).
C12_BlocksHaveLength ==
    \A j \in 1..Len(memory_blocks) : memory_blocks[j].size >= 1

\* ---- C14 ---------------------------------------------------------------
\* C14: every call appends exactly one event and leaves all earlier events
\* unchanged and in place; the appended event carries the call's id, and its
\* kind is ALLOCATION iff the allocate returned success, DEALLOCATION iff
\* the deallocate returned success, PAGE_FAULT iff a paging allocate failed
\* for lack of frames (it passed the duplicate test and needs more pages
\* than frames are free), and ERROR for every other failure.
C14_OneEventPerCall ==
    [][LET call == last_call'
           shortOfFrames ==
              /\ call.op = "allocate"
              /\ call.method = PAGING
              /\ call.result = FALSE
              /\ call.process_id \notin DOMAIN processes
              /\ call.size > Cardinality(FreeFrameSet(page_table)) * page_size
           kind == events'[Len(events')].event_type
       IN /\ call.op \in {"allocate", "deallocate"}
          /\ Len(events') = Len(events) + 1
          /\ SubSeq(events', 1, Len(events)) = events
          /\ events'[Len(events')].process_id = call.process_id
          /\ kind \in {"ALLOCATION", "DEALLOCATION", "PAGE_FAULT", "ERROR"}
          /\ kind = "ALLOCATION" <=> (call.op = "allocate" /\ call.result)
          /\ kind = "DEALLOCATION" <=> (call.op = "deallocate" /\ call.result)
          /\ kind = "PAGE_FAULT" <=> shortOfFrames
          /\ kind = "ERROR" <=> (call.result = FALSE /\ ~shortOfFrames)]_vars

\* a log that holds one event of each kind
C14_Witness ==
    /\ Len(events) = 4
    /\ {events[i].event_type : i \in 1..4} =
          {"ALLOCATION", "DEALLOCATION", "PAGE_FAULT", "ERROR"}

\* ---- C15 ---------------------------------------------------------------
\* largest limit asked of get_recent_events
MaxLimit == 5

\* Python's s[i:] for a list s and an integer i of either sign
PySliceFrom(s, i) ==
    LET n == Len(s)
        start == IF i < 0 THEN (IF n + i < 0 THEN 0 ELSE n + i)
                 ELSE (IF i > n THEN n ELSE i)
    IN SubSeq(s, start + 1, n)

\* self.events[-limit:], each event copied field by field
get_recent_events(evs, limit) ==
    LET recent == PySliceFrom(evs, 0 - limit)
    IN [i \in 1..Len(recent) |->
           [event_type |-> recent[i].event_type,
            process_id |-> recent[i].process_id]]

\* C15: for every limit N >= 0 and every event log of length L,
\* get_recent_events(N) returns exactly the last min(N, L) events of the
\* log, oldest first; in particular N = 0 returns no event.
C15_RecentEvents ==
    \A N \in 0..MaxLimit :
       LET L == Len(events)
           m == IF N < L THEN N ELSE L
       IN get_recent_events(events, N) = SubSeq(events, L - m + 1, L)

\* ---- C16 ---------------------------------------------------------------
\* variant: the test of the sum is inverted, free blocks are counted as used
get_memory_stats_inverted ==
    LET used_memory == SumSeq([j \in 1..Len(memory_blocks) |->
                                  IF is_free(memory_blocks[j])
                                  THEN memory_blocks[j].size ELSE 0])
        free_memory == total_memory_size - used_memory
    IN [total_memory |-> total_memory_size,
        used_memory |-> used_memory,
        free_memory |-> free_memory,
        used_percentage |-> Ratio(used_memory * 100, total_memory_size),
        page_faults |-> page_faults,
        external_fragmentation |-> external_fragmentation,
        internal_fragmentation |-> internal_fragmentation,
        process_count |-> Cardinality(DOMAIN processes)]

\* get_memory_stats; used_percentage is kept as a fraction in lowest terms
get_memory_stats ==
    LET used_memory == SumSeq([j \in 1..Len(memory_blocks) |->
                                  IF ~is_free(memory_blocks[j])
                                  THEN memory_blocks[j].size ELSE 0])
        free_memory == total_memory_size - used_memory
    IN [total_memory |-> total_memory_size,
        used_memory |-> used_memory,
        free_memory |-> free_memory,
        used_percentage |-> Ratio(used_memory * 100, total_memory_size),
        page_faults |-> page_faults,
        external_fragmentation |-> external_fragmentation,
        internal_fragmentation |-> internal_fragmentation,
        process_count |-> Cardinality(DOMAIN processes)]

\* C16: in every reachable state get_memory_stats reports used_memory equal
\* to the total length of the owned blocks (the number of addresses that lie
\* in an owned block), with 0 <= used_memory <= total_memory_size and
\* used_memory + free_memory = total_memory_size.
C16_StatsAddUp ==
    LET stats == get_memory_stats
        owned == {a \in Addresses :
                     \E j \in BlocksAt(memory_blocks, a) : ~is_free(memory_blocks[j])}
    IN /\ stats.used_memory = Cardinality(owned)
       /\ 0 <= stats.used_memory
       /\ stats.used_memory <= total_memory_size
       /\ stats.used_memory + stats.free_memory = total_memory_size

\* two owned blocks and a free one: part of memory is used, part is free
C16_Witness ==
    /\ Len(memory_blocks) >= 3
    /\ get_memory_stats.used_memory > 0
    /\ get_memory_stats.free_memory > 0
    /\ \E i, j \in 1..Len(memory_blocks) :
          i # j /\ ~is_free(memory_blocks[i]) /\ ~is_free(memory_blocks[j])

\* ---- C17 ---------------------------------------------------------------
\* C17: internal_fragmentation never decreases; a successful paging allocate
\* of size s increases it by page_size - (s mod page_size) when
\* s mod page_size # 0 and by 0 otherwise, and no other operation (failed
\* allocate, segmentation allocate, deallocate) changes it.
C17_InternalFragmentation ==
    [][LET call == last_call'
           s == call.size
       IN /\ internal_fragmentation' >= internal_fragmentation
          /\ IF call.op = "allocate" /\ call.method = PAGING /\ call.result
             THEN internal_fragmentation' - internal_fragmentation =
                     IF s % page_size # 0 THEN page_size - (s % page_size) ELSE 0
             ELSE internal_fragmentation' = internal_fragmentation]_vars

\* the counter has grown, an exact-fit paging allocate has left it as it was
\* and a deallocate has not lowered it
C17_Witness ==
    /\ internal_fragmentation > 0
    /\ Len(events) >= 3
    /\ \E i \in 1..Len(events) : events[i].event_type = "DEALLOCATION"
    /\ last_call.op = "allocate"
    /\ last_call.method = PAGING
    /\ last_call.result
    /\ last_call.size % page_size = 0

\* ---- C18 ---------------------------------------------------------------
\* C18: page_faults equals the number of PAGE_FAULT events ever logged; it
\* never decreases, and it changes only in a step that logs a PAGE_FAULT
\* event, where it grows by exactly one.
PageFaultEvents(evs) ==
    Cardinality({i \in 1..Len(evs) : evs[i].event_type = "PAGE_FAULT"})

C18_PageFaultsCounted ==
    /\ [](page_faults = PageFaultEvents(events))
    /\ [][LET call == last_call'
              shortOfFrames ==
                 /\ call.op = "allocate"
                 /\ call.method = PAGING
                 /\ call.result = FALSE
                 /\ call.process_id \notin DOMAIN processes
           IN /\ page_faults' >= page_faults
              /\ IF shortOfFrames
                 THEN /\ page_faults' = page_faults + 1
                      /\ events'[Len(events')].event_type = "PAGE_FAULT"
                 ELSE /\ page_faults' = page_faults
                      /\ events'[Len(events')].event_type # "PAGE_FAULT"]_vars

\* two page faults have been counted among other events
C18_Witness ==
    /\ page_faults = 2
    /\ Len(events) = 4
    /\ \E i \in 1..4 : events[i].event_type = "ALLOCATION"

\* ---- C19 ---------------------------------------------------------------
\* C19: external_fragmentation is changed only by a segmentation allocate
\* that fails with no suitable block; every other operation leaves it
\* unchanged. After such a failure it is 1 - largest_free/total_free on the
\* block list of that moment when the total free length is positive and 0
\* otherwise; it is 0 exactly when one free block holds all the free space
\* or there is no free space.
FreeBlocks(blocks) == {j \in 1..Len(blocks) : is_free(blocks[j])}

FreeLength(blocks) ==
    Cardinality({a \in Addresses : \E j \in FreeBlocks(blocks) :
                    blocks[j].start <= a /\ a <= BlockEnd(blocks[j])})

\* a free block at least as long as every free block
LargestFreeBlocks(blocks) ==
    {j \in FreeBlocks(blocks) :
        \A k \in FreeBlocks(blocks) : blocks[k].size <= blocks[j].size}

\* the fraction <<n, d>> in lowest terms is 1 - largest/total
IsOneMinus(frac, largest, total) ==
    /\ frac[2] > 0
    /\ frac[1] * total = frac[2] * (total - largest)
    /\ \A g \in 2..total_memory_size : ~(frac[1] % g = 0 /\ frac[2] % g = 0)

C19_ExternalFragmentation ==
    [][LET call == last_call'
           noSuitableBlock ==
              /\ call.op = "allocate"
              /\ call.method = SEGMENTATION
              /\ call.result = FALSE
              /\ call.process_id \notin DOMAIN processes
           total == FreeLength(memory_blocks')
           frac == external_fragmentation'
       IN IF noSuitableBlock
          THEN /\ memory_blocks' = memory_blocks
               /\ IF total > 0
                  THEN \A j \in LargestFreeBlocks(memory_blocks') :
                          IsOneMinus(frac, memory_blocks'[j].size, total)
                  ELSE frac = <<0, 1>>
               /\ frac = <<0, 1>>
                    <=> \/ total = 0
                        \/ \E j \in FreeBlocks(memory_blocks') :
                              memory_blocks'[j].size = total
          ELSE external_fragmentation' = external_fragmentation]_vars

\* a segmentation allocate has just failed between two free blocks of
\* lengths 1 and 2
C19_Witness ==
    /\ last_call.op = "allocate"
    /\ last_call.method = SEGMENTATION
    /\ last_call.result = FALSE
    /\ LastEvent.event_type = "ERROR"
    /\ Cardinality(FreeBlocks(memory_blocks)) = 2
    /\ external_fragmentation = <<1, 3>>

\* ---- C20 ---------------------------------------------------------------
\* variant of the snapshot: neighbouring ranges of one owner are reported as
\* a single range
RECURSIVE CoalesceFrom(_, _)
CoalesceFrom(blocks, i) ==
    IF i >= Len(blocks) THEN blocks
    ELSE IF /\ blocks[i].process_id = blocks[i + 1].process_id
            /\ BlockEnd(blocks[i]) + 1 = blocks[i + 1].start
         THEN CoalesceFrom(
                 [RemoveAt(blocks, i + 1) EXCEPT ![i].size =
                     blocks[i].size + blocks[i + 1].size], i)
         ELSE CoalesceFrom(blocks, i + 1)

get_memory_snapshot_coalesced(blocks) ==
    LET merged == CoalesceFrom(blocks, 1)
    IN [j \in 1..Len(merged) |->
          [start |-> merged[j].start, end |-> BlockEnd(merged[j]),
           size |-> merged[j].size, process_id |-> merged[j].process_id,
           is_free |-> is_free(merged[j])]]

\* get_memory_snapshot: one entry per block of the list, in list order
get_memory_snapshot(blocks) ==
    [j \in 1..Len(blocks) |->
       [start |-> blocks[j].start, end |-> BlockEnd(blocks[j]),
        size |-> blocks[j].size, process_id |-> blocks[j].process_id,
        is_free |-> is_free(blocks[j])]]

Range(start, end, process_id) ==
    [start |-> start, end |-> end, size |-> end - start + 1,
     process_id |-> process_id, is_free |-> process_id = None]

\* the step is a successful paging allocate
PagingSucceeded == 
    /\ last_call'.op = "allocate"
    /\ last_call'.method = PAGING
    /\ last_call'.result = TRUE

\* number of pages of the allocation just made
PagesOfCall == (last_call'.size + page_size - 1) \div page_size

FreeTail(k) ==
    IF k * page_size < total_memory_size
    THEN <<Range(k * page_size, total_memory_size - 1, None)>>
    ELSE <<>>

MaxConfig == 4

ConfigValues == (0 - 1)..MaxConfig

\* Python's a // b (floor division) for b # 0
PyFloorDiv(a, b) ==
    IF b > 0
    THEN (IF a >= 0 THEN a \div b ELSE 0 - (((0 - a) + b - 1) \div b))
    ELSE (IF a <= 0 THEN (0 - a) \div (0 - b)
          ELSE 0 - ((a + (0 - b) - 1) \div (0 - b)))

\* the call of the constructor just made and whether it returned an object
Constructed(op, tms, ps, result) ==
    last_call' = [op |-> op, total_memory_size |-> tms, page_size |-> ps,
                  result |-> result]

\* MemoryManager.__init__(total_memory_size, page_size): the state of the new
\* object; [None] * n is the empty list for n <= 0
MemoryManager_init(tms, ps) ==
    LET frames == PyFloorDiv(tms, ps)
    IN /\ manager_config' = [total_memory_size |-> tms, page_size |-> ps,
                             total_frames |-> frames]
       /\ memory_blocks' = <<MemoryBlock(0, tms, None)>>
       /\ page_table' = [f \in 0..(frames - 1) |-> None]
       /\ processes' = EmptyDict
       /\ events' = <<>>
       /\ page_faults' = 0
       /\ external_fragmentation' = <<0, 1>>
       /\ internal_fragmentation' = 0

\* a caller constructs MemoryManager(tms, ps) and keeps the object; the
\* division of line 51 raises ZeroDivisionError for page_size 0 and no
\* object is returned
Construct ==
    \E tms \in ConfigValues, ps \in ConfigValues :
       /\ IF ps = 0
          THEN /\ Constructed("construct", tms, ps, FALSE)
               /\ UNCHANGED <<engine_vars, manager_config>>
          ELSE /\ MemoryManager_init(tms, ps)
               /\ Constructed("construct", tms, ps, TRUE)
       /\ UNCHANGED <<gui, next_pid, issued, thread, observed>>

\* MemoryVisualizerGUI._apply_settings with the two entries holding the
\* integers memory_size and page_size
apply_settings(memory_size, psize) ==
    IF memory_size <= 0 \/ psize <= 0 \/ memory_size % psize # 0
    THEN /\ Constructed("apply_settings", memory_size, psize, FALSE)
         /\ UNCHANGED <<engine_vars, manager_config, gui>>
    ELSE /\ gui' = [memory_size |-> memory_size, page_size |-> psize]
         /\ MemoryManager_init(memory_size, psize)
         /\ Constructed("apply_settings", memory_size, psize, TRUE)

ApplySettings ==
    \E memory_size \in ConfigValues, psize \in ConfigValues :
       /\ apply_settings(memory_size, psize)
       /\ UNCHANGED <<next_pid, issued, thread, observed>>

NextConfig == Construct \/ ApplySettings

SpecConfig == Init /\ [][NextConfig]_vars

\* ---- C21 ---------------------------------------------------------------
\* C21: constructing the engine with total_memory_size or page_size not
\* positive, or with total_memory_size not a multiple of page_size, is
\* rejected and creates no engine state (block list, frame table); hence in
\* every constructed engine total_frames * page_size = total_memory_size.
C21_InvalidConfigRejected ==
    /\ [](manager_config.total_frames * manager_config.page_size
             = manager_config.total_memory_size)
    /\ [][LET call == last_call'
          IN (/\ call.op \in {"construct", "apply_settings"}
              /\ \/ call.total_memory_size <= 0
                 \/ call.page_size <= 0
                 \/ call.total_memory_size % call.page_size # 0)
             => /\ call.result = FALSE
                /\ UNCHANGED <<memory_blocks, page_table, manager_config>>]_vars

\* ---- the callers of gui_initial.py, statement by statement --------------
\* get_page_table_snapshot: one entry per frame of the frame table
get_page_table_snapshot(pt) ==
    [f \in DOMAIN pt |->
       [frame_id |-> f, process_id |-> pt[f],
        start_address |-> f * page_size,
        end_address |-> (f + 1) * page_size - 1]]

\* what one pass of the display loop can read from the engine
EngineView ==
    [memory_snapshot |-> get_memory_snapshot(memory_blocks),
     page_table_snapshot |-> get_page_table_snapshot(page_table),
     stats |-> get_memory_stats]

\* a thread returns from its handler
BackToIdle(t) == [Idle EXCEPT !.calls = thread[t].calls]

\* a thread is inside allocate_process or deallocate_process
InCall(t) == thread[t].pc \notin {"idle", "dead", "generate_read",
                                  "generate_load", "generate_store"}

Busy(t) == thread[t].pc \notin {"idle", "dead"}

\* number of engine calls the two threads make in one run
MaxHandlers == 3

\* every finished handler has logged one event (none if it raised): a
\* handler is started only while fewer than MaxHandlers were started
MayStart(t) ==
    /\ thread[t].pc = "idle"
    /\ Len(events) + Cardinality({u \in Threads : Busy(u)}) < MaxHandlers

\* the Process object a reference points to: while the thread that created
\* it is still inside the allocation, that thread's copy is the object
Deref(t, ref) ==
    LET makers == {u \in Threads \ {t} :
                     /\ InCall(u)
                     /\ thread[u].op = "allocate"
                     /\ thread[u].process.object = ref.object}
    IN IF makers = {} THEN ref ELSE thread[CHOOSE u \in makers : TRUE].process

\* the process map after thread t changed its own Process object: the map
\* shows the change only if it still holds that object
Publish(procs, process) ==
    IF /\ process.process_id \in DOMAIN procs
       /\ procs[process.process_id].object = process.object
    THEN [procs EXCEPT ![process.process_id] = process]
    ELSE procs

\* _add_random_process / _add_process / _simulation_loop enter a handler that
\* first draws an id: lines 206 and 322, "process_id = self.next_pid"
StartAdd(t) ==
    /\ MayStart(t)
    /\ next_pid <= MaxPid
    /\ \E size \in Sizes, method \in AllocationMethod :
          thread' = [thread EXCEPT ![t] =
                        [Idle EXCEPT !.pc = "generate_read",
                                     !.calls = thread[t].calls,
                                     !.op = "allocate",
                                     !.size = size, !.method = method]]
    /\ UNCHANGED <<engine_vars, last_call, manager_config, gui, next_pid,
                   issued, observed>>

generate_process_read(t) ==
    /\ thread[t].pc = "generate_read"
    /\ thread' = [thread EXCEPT ![t].process_id = next_pid,
                                ![t].pc = "generate_load"]
    /\ issued' = Append(issued, next_pid)
    /\ UNCHANGED <<engine_vars, last_call, manager_config, gui, next_pid,
                   observed>>

\* lines 207 and 323, "self.next_pid += 1": the load ...
generate_process_load(t) ==
    /\ thread[t].pc = "generate_load"
    /\ thread' = [thread EXCEPT ![t].tmp = next_pid,
                                ![t].pc = "generate_store"]
    /\ UNCHANGED <<engine_vars, last_call, manager_config, gui, next_pid,
                   issued, observed>>

\* ... and the store; the handler then calls allocate_process
generate_process_store(t) ==
    /\ thread[t].pc = "generate_store"
    /\ next_pid' = thread[t].tmp + 1
    /\ thread' = [thread EXCEPT ![t].tmp = 0,
                                ![t].pc = "allocate_check",
                                ![t].pre = EngineView]
    /\ UNCHANGED <<engine_vars, last_call, manager_config, gui, issued,
                   observed>>

\* Process(process_id, size) created by thread t; object tells the objects
\* of one id apart
ProcessObject(t, process_id, size) ==
    [process_id |-> process_id, size |-> size, pages |-> <<>>,
     segments |-> <<>>, object |-> <<t, thread[t].calls + 1>>]

\* the engine call of thread t returns result
Return(t, result) ==
    /\ thread' = [thread EXCEPT ![t] = BackToIdle(t)]
    /\ Returned(thread[t].op, thread[t].process_id, thread[t].size,
                thread[t].method, result)

\* an exception leaves the handler: Tk reports it and the GUI thread goes on,
\* the simulation thread ends
Raise(t) ==
    /\ thread' = [thread EXCEPT ![t] =
                    IF t = "simulation"
                    THEN [BackToIdle(t) EXCEPT !.pc = "dead"]
                    ELSE BackToIdle(t)]
    /\ Returned("raise", thread[t].process_id, thread[t].size,
                thread[t].method, FALSE)

\* allocate_process lines 76-78
allocate_check(t) ==
    /\ thread[t].pc = "allocate_check"
    /\ IF thread[t].process_id \in DOMAIN processes
       THEN /\ events' = log_event(events, "ERROR", thread[t].process_id)
            /\ Return(t, FALSE)
       ELSE /\ thread' = [thread EXCEPT ![t].pc = "allocate_register"]
            /\ UNCHANGED <<events, last_call>>
    /\ UNCHANGED <<memory_blocks, page_table, processes, page_faults,
                   external_fragmentation, internal_fragmentation, gui_vars_but_thread>>


\* allocate_process lines 80-86: the new object replaces whatever the map
\* holds under the id
allocate_register(t) ==
    /\ thread[t].pc = "allocate_register"
    /\ LET process == ProcessObject(t, thread[t].process_id, thread[t].size)
       IN /\ processes' = DictSet(processes, thread[t].process_id, process)
          /\ thread' = [thread EXCEPT
                          ![t].process = process,
                          ![t].calls = thread[t].calls + 1,
                          ![t].pc = IF thread[t].method = PAGING
                                    THEN "paging_scan" ELSE "segmentation_scan"]
    /\ UNCHANGED <<memory_blocks, page_table, events, page_faults,
                   external_fragmentation, internal_fragmentation,
                   last_call, gui_vars_but_thread>>

\* _allocate_paging lines 89-98: count the free frames, fail if too few
paging_scan(t) ==
    /\ thread[t].pc = "paging_scan"
    /\ LET num_pages_needed == (thread[t].size + page_size - 1) \div page_size
           ff == free_frames(page_table)
       IN IF Len(ff) < num_pages_needed
          THEN /\ events' = log_event(events, "PAGE_FAULT", thread[t].process_id)
               /\ page_faults' = page_faults + 1
               /\ Return(t, FALSE)
          ELSE /\ thread' = [thread EXCEPT
                               ![t].num_pages_needed = num_pages_needed,
                               ![t].free_frames = ff,
                               ![t].i = 0,
                               ![t].pc = IF num_pages_needed > 0
                                         THEN "paging_page" ELSE "paging_done"]
               /\ UNCHANGED <<events, page_faults, last_call>>
    /\ UNCHANGED <<memory_blocks, page_table, processes,
                   external_fragmentation, internal_fragmentation,
                   gui_vars_but_thread>>

\* lines 102-104: the page joins the process and the frame table names the
\* process
paging_page(t) ==
    /\ thread[t].pc = "paging_page"
    /\ LET frame == thread[t].free_frames[thread[t].i + 1]
           process == [thread[t].process EXCEPT
                          !.pages = Append(@, Page(thread[t].i, frame))]
       IN /\ page_table' = [page_table EXCEPT ![frame] = thread[t].process_id]
          /\ processes' = Publish(processes, process)
          /\ thread' = [thread EXCEPT ![t].process = process,
                                      ![t].pc = "paging_split"]
    /\ UNCHANGED <<memory_blocks, events, page_faults,
                   external_fragmentation, internal_fragmentation,
                   last_call, gui_vars_but_thread>>

\* lines 106-115: the first free block that holds the frame's span is split
paging_split(t) ==
    /\ thread[t].pc = "paging_split"
    /\ LET frame_start == thread[t].free_frames[thread[t].i + 1] * page_size
           j == FindBlockForFrame(memory_blocks, frame_start)
       IN /\ memory_blocks' =
                IF j = 0 THEN memory_blocks
                ELSE split_block_for_page(memory_blocks, j, frame_start,
                                          page_size, thread[t].process_id)
          /\ thread' = [thread EXCEPT
                          ![t].i = thread[t].i + 1,
                          ![t].pc = IF thread[t].i + 1 < thread[t].num_pages_needed
                                    THEN "paging_page" ELSE "paging_done"]
    /\ UNCHANGED <<page_table, processes, events, page_faults,
                   external_fragmentation, internal_fragmentation,
                   last_call, gui_vars_but_thread>>

\* lines 117-124
paging_done(t) ==
    /\ thread[t].pc = "paging_done"
    /\ LET last_page_size == thread[t].size % page_size
       IN internal_fragmentation' =
             IF last_page_size > 0
             THEN internal_fragmentation + (page_size - last_page_size)
             ELSE internal_fragmentation
    /\ events' = log_event(events, "ALLOCATION", thread[t].process_id)
    /\ Return(t, TRUE)
    /\ UNCHANGED <<memory_blocks, page_table, processes, page_faults,
                   external_fragmentation, gui_vars_but_thread>>


\* _allocate_segmentation lines 155-166: first fit, fail if nothing fits
segmentation_scan(t) ==
    /\ thread[t].pc = "segmentation_scan"
    /\ LET idx == suitable_block_idx(memory_blocks, thread[t].size)
       IN IF idx = 0
          THEN /\ events' = log_event(events, "ERROR", thread[t].process_id)
               /\ external_fragmentation' =
                     calculate_external_fragmentation(memory_blocks)
               /\ Return(t, FALSE)
          ELSE /\ thread' = [thread EXCEPT ![t].suitable_block_idx = idx,
                                           ![t].pc = "segmentation_commit"]
               /\ UNCHANGED <<events, external_fragmentation, last_call>>
    /\ UNCHANGED <<memory_blocks, page_table, processes, page_faults,
                   internal_fragmentation, gui_vars_but_thread>>

\* lines 168-187, with the index found by the scan: the list may have
\* changed since, and an index past its end raises IndexError at line 169
segmentation_commit(t) ==
    /\ thread[t].pc = "segmentation_commit"
    /\ LET idx == thread[t].suitable_block_idx
       IN IF idx > Len(memory_blocks)
          THEN /\ Raise(t)
               /\ UNCHANGED <<memory_blocks, processes, events>>
          ELSE LET block == memory_blocks[idx]
                   segment == MemoryBlock(block.start, thread[t].size,
                                          thread[t].process_id)
                   process == [thread[t].process EXCEPT
                                  !.segments = Append(@, segment)]
               IN /\ processes' = Publish(processes, process)
                  /\ memory_blocks' =
                        IF block.size > thread[t].size
                        THEN InsertAt([memory_blocks EXCEPT ![idx] = segment],
                                      idx + 1,
                                      MemoryBlock(block.start + thread[t].size,
                                                  block.size - thread[t].size,
                                                  None))
                        ELSE [memory_blocks EXCEPT ![idx] = segment]
                  /\ events' = log_event(events, "ALLOCATION",
                                         thread[t].process_id)
                  /\ Return(t, TRUE)
    /\ UNCHANGED <<page_table, page_faults, external_fragmentation,
                   internal_fragmentation, gui_vars_but_thread>>

\* _simulation_loop lines 192-195 pick a key of the process map; _remove_process
\* takes any id from the entry
StartRemove(t) ==
    /\ MayStart(t)
    /\ \E process_id \in PIDs :
          /\ t = "simulation" => process_id \in DOMAIN processes
          /\ thread' = [thread EXCEPT ![t] =
                          [BackToIdle(t) EXCEPT !.pc = "deallocate_check",
                                                !.op = "deallocate",
                                                !.process_id = process_id,
                                                !.pre = EngineView]]
    /\ UNCHANGED <<engine_vars, last_call, gui_vars_but_thread>>

\* deallocate_process lines 190-199
deallocate_check(t) ==
    /\ thread[t].pc = "deallocate_check"
    /\ IF thread[t].process_id \notin DOMAIN processes
       THEN /\ events' = log_event(events, "ERROR", thread[t].process_id)
            /\ Return(t, FALSE)
       ELSE LET process == processes[thread[t].process_id]
            IN /\ thread' = [thread EXCEPT
                               ![t].process = process,
                               ![t].pc = IF process.pages # <<>>
                                         THEN "deallocate_frames"
                                         ELSE IF process.segments # <<>>
                                              THEN "deallocate_segments"
                                              ELSE "deallocate_delete"]
               /\ UNCHANGED <<events, last_call>>
    /\ UNCHANGED <<memory_blocks, page_table, processes, page_faults,
                   external_fragmentation, internal_fragmentation,
                   gui_vars_but_thread>>

\* _deallocate_paging lines 207-209
deallocate_frames(t) ==
    /\ thread[t].pc = "deallocate_frames"
    /\ page_table' = ReleaseFrames(page_table, Deref(t, thread[t].process).pages)
    /\ thread' = [thread EXCEPT ![t].pc = "deallocate_blocks"]
    /\ UNCHANGED <<memory_blocks, processes, events, page_faults,
                   external_fragmentation, internal_fragmentation,
                   last_call, gui_vars_but_thread>>

\* lines 212-214
deallocate_blocks(t) ==
    /\ thread[t].pc = "deallocate_blocks"
    /\ memory_blocks' =
          [i \in 1..Len(memory_blocks) |->
             IF memory_blocks[i].process_id = thread[t].process_id
             THEN MemoryBlock(memory_blocks[i].start, memory_blocks[i].size, None)
             ELSE memory_blocks[i]]
    /\ thread' = [thread EXCEPT ![t].pc = "deallocate_merge"]
    /\ UNCHANGED <<page_table, processes, events, page_faults,
                   external_fragmentation, internal_fragmentation,
                   last_call, gui_vars_but_thread>>

\* _deallocate_segmentation lines 221-225
deallocate_segments(t) ==
    /\ thread[t].pc = "deallocate_segments"
    /\ memory_blocks' = ReleaseSegments(memory_blocks,
                                        Deref(t, thread[t].process).segments,
                                        thread[t].process_id)
    /\ thread' = [thread EXCEPT ![t].pc = "deallocate_merge"]
    /\ UNCHANGED <<page_table, processes, events, page_faults,
                   external_fragmentation, internal_fragmentation,
                   last_call, gui_vars_but_thread>>

\* lines 217 and 228
deallocate_merge(t) ==
    /\ thread[t].pc = "deallocate_merge"
    /\ memory_blocks' = merge_adjacent_free_blocks(memory_blocks)
    /\ thread' = [thread EXCEPT ![t].pc = "deallocate_delete"]
    /\ UNCHANGED <<page_table, processes, events, page_faults,
                   external_fragmentation, internal_fragmentation,
                   last_call, gui_vars_but_thread>>

\* deallocate_process lines 201-203; del raises KeyError if the id is gone
deallocate_delete(t) ==
    /\ thread[t].pc = "deallocate_delete"
    /\ IF thread[t].process_id \notin DOMAIN processes
       THEN /\ Raise(t)
            /\ UNCHANGED <<processes, events>>
       ELSE /\ processes' = DictDel(processes, thread[t].process_id)
            /\ events' = log_event(events, "DEALLOCATION", thread[t].process_id)
            /\ Return(t, TRUE)
    /\ UNCHANGED <<memory_blocks, page_table, page_faults,
                   external_fragmentation, internal_fragmentation,
                   gui_vars_but_thread>>


\* the statements of the handlers a thread can be in
Step(t) ==
    \/ StartAdd(t)
    \/ generate_process_read(t)
    \/ generate_process_load(t)
    \/ generate_process_store(t)
    \/ allocate_check(t)
    \/ allocate_register(t)
    \/ paging_scan(t)
    \/ paging_page(t)
    \/ paging_split(t)
    \/ paging_done(t)
    \/ segmentation_scan(t)
    \/ segmentation_commit(t)
    \/ StartRemove(t)
    \/ deallocate_check(t)
    \/ deallocate_frames(t)
    \/ deallocate_blocks(t)
    \/ deallocate_segments(t)
    \/ deallocate_merge(t)
    \/ deallocate_delete(t)

\* _update_visualization lines 126-128, a callback of the GUI thread: it
\* reads the snapshots of whatever state the engine is in
update_visualization ==
    /\ thread["gui"].pc = "idle"
    /\ observed' = <<EngineView>>
    /\ thread' = IF InCall("simulation")
                 THEN [thread EXCEPT !["simulation"].seen = <<EngineView>>]
                 ELSE thread
    /\ UNCHANGED <<engine_vars, last_call, manager_config, gui, next_pid, issued>>

Simulation == Step("simulation")

Buttons == Step("gui")

\* the simulation thread and the display loop
NextDisplay == Simulation \/ update_visualization

SpecDisplay == Init /\ [][NextDisplay]_vars

\* the simulation thread and the buttons of the GUI thread
NextThreads == Simulation \/ Buttons

SpecThreads == Init /\ [][NextThreads]_vars


\* ---- C22 ---------------------------------------------------------------
\* C22: the process ids issued by the workload generator are 1, 2, 3, ...,
\* strictly increasing and none issued twice, for every sequence of issues
\* through generate_process and through the manual add path of the GUI, also
\* when the simulation thread and the GUI thread issue ids at the same time
\* and whether or not the allocations that use them fail.
C22_IdsIssuedOnce ==
    \A k \in 1..Len(issued) : issued[k] = k


\* ---- C23 ---------------------------------------------------------------
\* the simulation thread returns from allocate_process or deallocate_process
\* in this step
SimulationReturns == InCall("simulation") /\ ~InCall("simulation")'

\* C23: while the simulation thread runs allocate_process or
\* deallocate_process, what the display loop reads (get_memory_snapshot,
\* get_page_table_snapshot, get_memory_stats) is never a half-completed
\* mutation: everything read during a call is the state before the call or
\* the state after it.
C23_NoHalfCompletedSnapshot ==
    [][SimulationReturns
       => \A k \in 1..Len(thread["simulation"].seen) :
             \/ thread["simulation"].seen[k] = thread["simulation"].pre
             \/ thread["simulation"].seen[k] = EngineView']_vars


\* ---- C24 ---------------------------------------------------------------
\* the frames named by the page list of a process of the process map
FramesOf(p) ==
    {processes[p].pages[k].frame_id : k \in 1..Len(processes[p].pages)}

\* C24: mutating calls of the simulation thread and of the GUI thread's
\* buttons are serialized: however two allocate_process calls, or an allocate
\* and a deallocate, interleave, once both threads are back outside the
\* engine no frame is in the page lists of two processes and no page of a
\* process sits on a frame the frame table gives to another process.
C24_CallsSerialized ==
    (\A t \in Threads : ~InCall(t))
    => /\ \A p \in DOMAIN processes, q \in DOMAIN processes :
             p # q => FramesOf(p) \cap FramesOf(q) = {}
       /\ \A p \in DOMAIN processes : \A f \in FramesOf(p) :
             page_table[f] \in {p, None}


\* ---- C25 ---------------------------------------------------------------
\* C25: a successful segmentation allocate(p, size) with size >= 1 into a
\* free block [a, a+len) replaces it by the owned block [a, a+size) followed
\* by the free block [a+size, a+len) when len > size, and by the single owned
\* block [a, a+len) when len = size (no zero-length remainder); every other
\* block is unchanged and p's segment record equals the owned block.
C25_SegmentationSplit ==
    [][(/\ last_call'.op = "allocate"
        /\ last_call'.method = SEGMENTATION
        /\ last_call'.result = TRUE)
       => LET p == last_call'.process_id
              size == last_call'.size
          IN \E j \in 1..Len(memory_blocks) :
                LET a == memory_blocks[j].start
                    len == memory_blocks[j].size
                    owned == [start |-> a, size |-> size, process_id |-> p]
                    rest == [start |-> a + size, size |-> len - size,
                             process_id |-> None]
                IN /\ memory_blocks[j].process_id = None
                   /\ len >= size
                   /\ memory_blocks' =
                         SubSeq(memory_blocks, 1, j - 1)
                         \o (IF len > size THEN <<owned, rest>> ELSE <<owned>>)
                         \o SubSeq(memory_blocks, j + 1, Len(memory_blocks))
                   /\ processes'[p].segments = <<owned>>
                   /\ processes'[p].pages = <<>>]_vars

\* a segmentation allocate has just taken a whole free block that follows a
\* block split by an earlier one
C25_Witness ==
    /\ last_call.op = "allocate"
    /\ last_call.method = SEGMENTATION
    /\ last_call.result = TRUE
    /\ Len(events) = 2
    /\ Len(memory_blocks) = 2
    /\ \A j \in 1..2 : memory_blocks[j].process_id # None
    /\ memory_blocks[2].process_id = last_call.process_id
    /\ memory_blocks[2].size = last_call.size


\* ---- C26 ---------------------------------------------------------------
\* histories that use only the paging strategy, sizes >= 1
AllocatePaging == \E p \in PIDs, size \in Sizes :
                     allocate_process(p, size, PAGING) /\ UNCHANGED gui_vars

NextPaging == AllocatePaging \/ Deallocate

SpecPaging == Init /\ [][NextPaging]_vars

\* the free blocks of a block list that hold the whole span of frame f
FreeBlocksHolding(blocks, f) ==
    {j \in 1..Len(blocks) :
        /\ blocks[j].process_id = None
        /\ blocks[j].start <= f * page_size
        /\ blocks[j].start + blocks[j].size >= (f + 1) * page_size}

\* the owner of every address of frame f according to the block list, the
\* set of owners if the span is mixed
SpanOwners(blocks, f) ==
    {blocks[j].process_id :
        j \in {k \in 1..Len(blocks) :
                 \E a \in FrameSpan(f) :
                    blocks[k].start <= a /\ a < blocks[k].start + blocks[k].size}}

\* the block list of the paging allocation of the step after its first n
\* frames were split
BlocksAfterPages(n) ==
    PagingLoop(0, n, free_frames(page_table), last_call'.process_id,
               [blocks |-> memory_blocks, page_table |-> page_table,
                pages |-> <<>>]).blocks

\* C26: in every history that uses only the paging strategy with sizes >= 1,
\* every block boundary is a multiple of page_size (the end of memory apart),
\* each assigned frame's span lies inside exactly one free block at the
\* moment it is split, and after every call the frame table and the block
\* list agree: page_table[f] = p iff the block covering the span of f is
\* owned by p, and page_table[f] is None iff that span is free.
C26_PagingKeepsFramesAndBlocksAligned ==
    /\ [](\A j \in 1..Len(memory_blocks) :
             /\ memory_blocks[j].start % page_size = 0
             /\ \/ (memory_blocks[j].start + memory_blocks[j].size) % page_size = 0
                \/ memory_blocks[j].start + memory_blocks[j].size = total_memory_size)
    /\ [](\A f \in Frames : SpanOwners(memory_blocks, f) = {page_table[f]})
    /\ [][(/\ last_call'.op = "allocate"
           /\ last_call'.result = TRUE)
          => LET pages == processes'[last_call'.process_id].pages
             IN \A n \in 1..Len(pages) :
                   Cardinality(FreeBlocksHolding(BlocksAfterPages(n - 1),
                                                 pages[n].frame_id)) = 1]_vars

\* a paging allocation has just taken two frames out of a free block that a
\* deallocation had coalesced
C26_Witness ==
    /\ last_call.op = "allocate"
    /\ last_call.result = TRUE
    /\ Len(processes[last_call.process_id].pages) = 2
    /\ \E k \in 1..Len(events) : events[k].event_type = "DEALLOCATION"
    /\ \A f \in Frames : page_table[f] = last_call.process_id

====
